---- MODULE Spec2Model ----
(***************************************************************************)
(* SmartRaiden: the reconnecting chain client (network/helper/             *)
(* safeethclient.go) and the punish scenario of the channel dispute        *)
(* contract (cmd/tools/contracttest/channel_punish_test.go).               *)
(***************************************************************************)
EXTENDS Integers, Sequences, FiniteSets, TLC

(* ------------------------------ bounds --------------------------------- *)
\* channels RegisterReConnectNotify makes in one run
MaxChans == 2
\* RecoverDisconnect invocations in one run
MaxRecover == 2
\* failed dial attempts of one RecoverDisconnect run before the dial succeeds
MaxDialFail == 1

\* calls made on the second client in one run
MaxPeerOps == 2

\* blocks the chain advances in one run
MaxHeight == 3
\* blocks after the close during which an update is accepted
SettleTimeout == 2
\* blocks after the update during which a punish request is accepted
PunishWindow == 2

(* ----------------------------- constants ------------------------------- *)
\* the deposits, the closing proof and the update proof of TestChannelPunishRight
DepositSelf == 25
DepositPartner == 20
CloseTransfer == 10
CloseNonce == 3
UpdateNonce == 1
NumLocks == 20
LockAmount == 1

ConnectionOk == 0
ConnectionFailed == 1
\* make(chan struct{}, 1)
ChanCap == 1

\* common.Hash and contracts.ChannelIdentifier: 32 bytes
HashLen == 32
\* common.Address: 20 bytes
AddressLen == 20
\* binary.Write of a uint64: 8 bytes
UInt64Len == 8
\* utils.BigIntTo32Bytes: 32 bytes
ChainIDLen == 32

\* the nil *ethclient.Client a failed Dial returns
NilConn == 0
NoOwner == "none"
NoChan == 0
NoName == "none"

Names == {"n1", "n2"}
Registrars == {"g1", "g2"}
Reconnectors == {"r1", "r2"}
Callers == {"c1", "c2"}

VARIABLES
    Client,      \* SafeEthClient.Client: the installed connection (a dial number)
    Status,      \* SafeEthClient.Status
    lock,        \* SafeEthClient.lock: its holder, or NoOwner
    ReConnect,   \* SafeEthClient.ReConnect: name -> channel
    chanBuf,     \* channel -> values buffered in it
    chanSent,    \* channel -> sends performed on it
    chanClosed,  \* channel -> close() calls performed on it
    chanName,    \* channel -> the name it was registered under
    nextConn,    \* the number the next successful dial gets
    panicked,    \* a goroutine panicked: the process is gone
    pcReg,       \* registrar -> where it is in RegisterReConnectNotify
    regName,     \* registrar -> the name of its call
    regRet,      \* registrar -> the channel its last call returned
    pcRec,       \* reconnector -> where it is in RecoverDisconnect
    recClient,   \* reconnector -> its local client
    recKeys,     \* reconnector -> its local keys
    recCur,      \* reconnector -> the channel of the current loop turn
    recFails,    \* reconnector -> failed dials of this run
    recStarts,   \* RecoverDisconnect invocations so far
    recOld,      \* reconnector -> the connection installed when its run began
    recSnap,     \* reconnector -> the channels registered when it took the lock
    pcCall,      \* caller -> where it is in the wrapper
    callConn,    \* caller -> the connection its call runs on
    waitOrder,   \* the callers waiting for the lock, in the order they called
    chState,     \* the channel's lifecycle state
    height,      \* the chain's block height
    closeHeight, \* the height at which the channel was closed
    updateHeight,\* the height of the last successful update
    recNonce,    \* signer -> the nonce of its last recorded proof
    recAmount,   \* signer -> the transferred amount of its last recorded proof
    commitment,  \* the recorded lock commitment (the set of locks it commits to)
    commitSigner,\* the signer of the proof that carried it
    prevCommitment, \* the commitment the last update replaced
    prevSigner,  \* and its signer
    punished,    \* the punishments that succeeded: <<lock, offender, punisher>>
    finalBal,    \* participant -> its balance once settled
    aborted,     \* sign() panicked: the process is gone
    lastCall,    \* the last contract call and its result
    okOps,       \* the calls that succeeded, in order
    scen,        \* how far the run has followed the worked punish scenario
    scenOk,      \* whether every step of it so far succeeded
    ous,         \* the punish requests (ObseleteUnlockForContract) built so far
    signed,      \* request -> the bytes sign() handed to SignData, <<>> before
    peer         \* a second SafeEthClient, made by another NewSafeClient

chanVars == <<chanBuf, chanSent, chanClosed, chanName>>
regVars == <<pcReg, regName, regRet>>
recVars == <<pcRec, recClient, recKeys, recCur, recFails, recStarts, recOld, recSnap>>
callVars == <<pcCall, callConn, waitOrder>>

clientVars == <<Client, Status, lock, ReConnect, nextConn, panicked,
                chanVars, regVars, recVars, callVars>>

disputeVars == <<chState, height, closeHeight, updateHeight, recNonce, recAmount,
                 commitment, commitSigner, prevCommitment, prevSigner, punished,
                 finalBal, aborted, lastCall, okOps, scen, scenOk>>

signVars == <<ous, signed>>

vars == <<clientVars, disputeVars, signVars, peer>>

Chans == DOMAIN chanSent

(* ------------------- the channel and its participants ------------------ *)
\* self and partner of TestChannelPunishRight
Participants == {"A", "B"}
Other(x) == IF x = "A" THEN "B" ELSE "A"
Deposit == [x \in Participants |-> IF x = "A" THEN DepositSelf ELSE DepositPartner]

\* createLock(20, big.NewInt(1)): the locks, each of amount LockAmount
Locks == 1 .. NumLocks
\* the lock sets a balance proof of the model commits to
Commitments == {{}, Locks, Locks \ {1}}
\* what each party has transferred: partner 10, self nothing
Transferred == [x \in Participants |-> IF x = "B" THEN CloseTransfer ELSE 0]

\* a balance proof: signer is the party it claims to come from, signedBy the key
\* that signed it
Proof(x, k, n, c) ==
    [signer |-> x, signedBy |-> k, nonce |-> n, amount |-> Transferred[x],
     locks |-> c]

\* the balance proofs the model submits: the two of the test, the partner's
\* closing proof with locks and its successor without lock 1, stale proofs of
\* both parties and a proof signed with the wrong key
Proofs ==
    {Proof("B", "B", CloseNonce, {}), Proof("A", "A", UpdateNonce, Locks),
     Proof("B", "B", CloseNonce, Locks), Proof("B", "B", CloseNonce + 1, Locks \ {1}),
     Proof("B", "B", UpdateNonce, {}), Proof("A", "A", CloseNonce, Locks \ {1}),
     Proof("B", "A", CloseNonce + 1, Locks)}

\* createPartnerBalanceProof(self, partner, 10, EmptyHash, EmptyHash, 3)
ScenarioCloseProof == Proof("B", "B", CloseNonce, {})

\* createPartnerBalanceProof(partner, self, 0, mp.MerkleRoot(), EmptyHash, 1)
ScenarioUpdateProof == Proof("A", "A", UpdateNonce, Locks)

NoKey == "none"
NoCall == [op |-> "none", result |-> "none", stale |-> FALSE, cross |-> FALSE,
           pre |-> "none", late |-> FALSE]
Terminal == {"Settled", "Punished"}

\* the channel as opened by openChannelAndDeposit, nothing signed or called yet
DisputeInit ==
    /\ chState = "Opened"
    /\ height = 0 /\ closeHeight = 0 /\ updateHeight = 0
    /\ recNonce = [x \in Participants |-> 0]
    /\ recAmount = [x \in Participants |-> 0]
    /\ commitment = {} /\ commitSigner = NoKey
    /\ prevCommitment = {} /\ prevSigner = NoKey
    /\ punished = {}
    /\ finalBal = [x \in Participants |-> 0]
    /\ aborted = FALSE
    /\ lastCall = NoCall
    /\ okOps = <<>>
    /\ scen = 0 /\ scenOk = TRUE

(* ----------------------- ObseleteUnlockForContract --------------------- *)
\* a hash whose bytes are zero but the one at position at, which is b
HashOf(at, b) == [i \in 1 .. HashLen |-> IF i = at THEN b ELSE 0]
\* an address whose bytes are all b
AddressOf(b) == [i \in 1 .. AddressLen |-> b]

\* the lock hashes and channel identifiers the requests of the model carry:
\* they differ in the first and in the last byte
Hashes == {HashOf(1, 1), HashOf(HashLen, 1)}
Addresses == {AddressOf(1), AddressOf(2)}
\* open block numbers and chain ids of one, two and three significant bytes
BlockNumbers == {1, 256}
ChainIDs == {1, 65537}

\* the fields sign() writes, and the fields it leaves out
SignedFields == [LockHash : Hashes, ChannelIdentifier : Hashes,
                 OpenBlockNumber : BlockNumbers, ChainID : ChainIDs,
                 AdditionalHash : {HashOf(1, 0), HashOf(HashLen, 1)}]
\* (the additional hash is utils.EmptyHash or not)
OtherFields == [BeneficiaryAddress : Addresses, TokenNetworkAddress : Addresses,
                MerkleProof : {<<>>, <<1, 2>>}, BeneficiaryNonce : {0, 1},
                BeneficiaryTransferredAmount : {0, 1}]

\* an ObseleteUnlockForContract with the signed fields f and the other fields g
Request(f, g) ==
    [LockHash |-> f.LockHash, ChannelIdentifier |-> f.ChannelIdentifier,
     OpenBlockNumber |-> f.OpenBlockNumber, ChainID |-> f.ChainID,
     AdditionalHash |-> f.AdditionalHash,
     BeneficiaryAddress |-> g.BeneficiaryAddress,
     TokenNetworkAddress |-> g.TokenNetworkAddress,
     MerkleProof |-> g.MerkleProof, BeneficiaryNonce |-> g.BeneficiaryNonce,
     BeneficiaryTransferredAmount |-> g.BeneficiaryTransferredAmount]

\* the request of TestChannelPunishRight
TestRequest ==
    Request([LockHash |-> HashOf(1, 1), ChannelIdentifier |-> HashOf(HashLen, 1),
             OpenBlockNumber |-> 1, ChainID |-> 1, AdditionalHash |-> HashOf(1, 0)],
            [BeneficiaryAddress |-> AddressOf(1), TokenNetworkAddress |-> AddressOf(2),
             MerkleProof |-> <<1, 2>>, BeneficiaryNonce |-> 0,
             BeneficiaryTransferredAmount |-> 0])

RequestIds == {"ou1", "ou2"}

\* the requests of the test, none signed
SignInit ==
    /\ ous = [r \in RequestIds |-> TestRequest]
    /\ signed = [r \in RequestIds |-> <<>>]

\* two requests with any fields of the sets above (the first with the other
\* fields of the test), none signed
SignInputs ==
    /\ \E f1, f2 \in SignedFields, g2 \in OtherFields :
          ous = [r \in RequestIds |->
                    IF r = "ou1" THEN [TestRequest EXCEPT
                                          !.LockHash = f1.LockHash,
                                          !.ChannelIdentifier = f1.ChannelIdentifier,
                                          !.OpenBlockNumber = f1.OpenBlockNumber,
                                          !.ChainID = f1.ChainID,
                                          !.AdditionalHash = f1.AdditionalHash]
                    ELSE Request(f2, g2)]
    /\ signed = [r \in RequestIds |-> <<>>]

(* --------------------------- NewSafeClient ----------------------------- *)
\* the parts of the client every construction sets the same way
InitCommon ==
    /\ lock = NoOwner
    /\ ReConnect = <<>>
    /\ chanBuf = <<>> /\ chanSent = <<>> /\ chanClosed = <<>> /\ chanName = <<>>
    /\ panicked = FALSE
    /\ pcReg = [p \in Registrars |-> "idle"]
    /\ regName = [p \in Registrars |-> NoName]
    /\ regRet = [p \in Registrars |-> NoChan]
    /\ pcRec = [r \in Reconnectors |-> "idle"]
    /\ recClient = [r \in Reconnectors |-> NilConn]
    /\ recKeys = [r \in Reconnectors |-> {}]
    /\ recCur = [r \in Reconnectors |-> NoChan]
    /\ recFails = [r \in Reconnectors |-> 0]
    /\ recStarts = 0
    /\ recOld = [r \in Reconnectors |-> NilConn]
    /\ recSnap = [r \in Reconnectors |-> {}]
    /\ pcCall = [p \in Callers |-> "idle"]
    /\ callConn = [p \in Callers |-> NilConn]
    /\ waitOrder = <<>>

\* the second client as NewSafeClient returns it after a successful Dial: its
\* own connection, status and registry (c := new(SafeEthClient);
\* c.ReConnect = make(map[string]chan struct{}))
PeerInit ==
    peer = [Client |-> <<"peer", 1>>, Status |-> ConnectionOk, ReConnect |-> <<>>,
            fired |-> {}, pc |-> "idle", ops |-> 0]

\* NewSafeClient whose Dial succeeded
InitConnected ==
    /\ InitCommon /\ DisputeInit /\ SignInit /\ PeerInit
    /\ Client = 1 /\ nextConn = 2 /\ Status = ConnectionOk

\* a mutant of InitFailed: the else branch is missing and Status keeps its zero
\* value
InitFailedStatusUnset ==
    /\ InitCommon /\ DisputeInit /\ SignInit /\ PeerInit
    /\ Client = NilConn /\ nextConn = 1 /\ Status = ConnectionOk

\* NewSafeClient whose Dial failed: the client is returned with the error
InitFailed ==
    /\ InitCommon /\ DisputeInit /\ SignInit /\ PeerInit
    /\ Client = NilConn /\ nextConn = 1 /\ Status = ConnectionFailed

Init == InitConnected \/ InitFailed

(* ------------------------------ the lock ------------------------------- *)
\* a mutant of LockFree: Lock() returns whoever holds the lock
LockNeverHeld == TRUE

\* c.lock.Lock() can return
LockFree == lock = NoOwner

\* a mutant of Unlock: the lock stays with its holder
UnlockKeeps(holder) == holder

\* c.lock.Unlock() by the holder
Unlock(holder) == NoOwner

(* ---------------------- RegisterReConnectNotify ------------------------ *)
\* a mutant of RegisterResult: every call makes a channel
RegisterResultAlwaysNew(reg, name, fresh) == fresh

\* the channel RegisterReConnectNotify returns
RegisterResult(reg, name, fresh) ==
    IF name \in DOMAIN reg THEN reg[name] ELSE fresh

\* a mutant of RegisterMap: the new channel is returned but not stored
RegisterMapForgets(reg, name, ch) == reg

\* the registry RegisterReConnectNotify leaves
RegisterMap(reg, name, ch) ==
    [n \in DOMAIN reg \cup {name} |-> IF n = name THEN ch ELSE reg[n]]

Extend(f, k, v) == [x \in DOMAIN f \cup {k} |-> IF x = k THEN v ELSE f[x]]

\* RegisterReConnectNotify(n) is called and c.lock.Lock() returns
RegLock(p, n) ==
    /\ ~panicked
    /\ UNCHANGED <<disputeVars, signVars, peer>>
    /\ pcReg[p] = "idle" /\ LockFree
    /\ n \in DOMAIN ReConnect \/ Cardinality(Chans) < MaxChans
    /\ lock' = p
    /\ pcReg' = [pcReg EXCEPT ![p] = "body"]
    /\ regName' = [regName EXCEPT ![p] = n]
    /\ UNCHANGED <<Client, Status, ReConnect, nextConn, panicked, chanVars,
                   regRet, recVars, callVars>>

\* the body under the lock, the return and the deferred Unlock
RegBody(p) ==
    /\ ~panicked
    /\ UNCHANGED <<disputeVars, signVars, peer>>
    /\ pcReg[p] = "body"
    /\ LET fresh == Cardinality(Chans) + 1
           ch == RegisterResult(ReConnect, regName[p], fresh)
       IN /\ regRet' = [regRet EXCEPT ![p] = ch]
          /\ IF ch \in Chans
             THEN UNCHANGED <<ReConnect, chanVars>>
             ELSE /\ ReConnect' = RegisterMap(ReConnect, regName[p], ch)
                  /\ chanBuf' = Extend(chanBuf, ch, 0)
                  /\ chanSent' = Extend(chanSent, ch, 0)
                  /\ chanClosed' = Extend(chanClosed, ch, 0)
                  /\ chanName' = Extend(chanName, ch, regName[p])
    /\ lock' = Unlock(p)
    /\ pcReg' = [pcReg EXCEPT ![p] = "idle"]
    /\ regName' = [regName EXCEPT ![p] = NoName]
    /\ UNCHANGED <<Client, Status, nextConn, panicked, recVars, callVars>>

\* the holder of a returned channel receives the value buffered in it, and is
\* done with the channel
Recv(p) ==
    /\ ~panicked
    /\ UNCHANGED <<disputeVars, signVars, peer>>
    /\ pcReg[p] = "idle"
    /\ regRet[p] \in Chans /\ chanBuf[regRet[p]] > 0
    /\ chanBuf' = [chanBuf EXCEPT ![regRet[p]] = @ - 1]
    /\ regRet' = [regRet EXCEPT ![p] = NoChan]
    /\ UNCHANGED <<Client, Status, lock, ReConnect, nextConn, panicked, chanSent,
                   chanClosed, chanName, pcReg, regName, recVars, callVars>>

(* -------------------------- RecoverDisconnect -------------------------- *)
\* a mutant of NotifyTargets: the range loop visits fired entries again
NotifyTargetsRevisit(reg, keys) == DOMAIN reg

\* the entries the range loop over c.ReConnect has still to visit
NotifyTargets(reg, keys) == DOMAIN reg \ keys

\* a mutant of Retire: the fired names stay in the registry
RetireNone(reg, keys) == reg

\* the delete loop: c.ReConnect without the names in keys
Retire(reg, keys) == [n \in DOMAIN reg \ keys |-> reg[n]]

\* RecoverDisconnect is called: c.Status = ConnectionFailed
RecStart(r) ==
    /\ ~panicked
    /\ UNCHANGED <<disputeVars, signVars, peer>>
    /\ pcRec[r] = "idle" /\ recStarts < MaxRecover
    /\ Status' = ConnectionFailed
    /\ pcRec' = [pcRec EXCEPT ![r] = "dial"]
    /\ recStarts' = recStarts + 1
    /\ recOld' = [recOld EXCEPT ![r] = Client]
    /\ UNCHANGED <<Client, lock, ReConnect, nextConn, panicked, chanVars, regVars,
                   recClient, recKeys, recCur, recFails, recSnap, callVars>>

\* ethclient.Dial fails: log, sleep three seconds, try again
RecDialFail(r) ==
    /\ ~panicked
    /\ UNCHANGED <<disputeVars, signVars, peer>>
    /\ pcRec[r] = "dial" /\ recFails[r] < MaxDialFail
    /\ recFails' = [recFails EXCEPT ![r] = @ + 1]
    /\ UNCHANGED <<Client, Status, lock, ReConnect, nextConn, panicked, chanVars,
                   regVars, pcRec, recClient, recKeys, recCur, recStarts, recOld,
                   recSnap, callVars>>

\* ethclient.Dial succeeds: client holds the new connection
RecDialOk(r) ==
    /\ ~panicked
    /\ UNCHANGED <<disputeVars, signVars, peer>>
    /\ pcRec[r] = "dial"
    /\ recClient' = [recClient EXCEPT ![r] = nextConn]
    /\ nextConn' = nextConn + 1
    /\ pcRec' = [pcRec EXCEPT ![r] = "setok"]
    /\ recFails' = [recFails EXCEPT ![r] = 0]
    /\ UNCHANGED <<Client, Status, lock, ReConnect, panicked, chanVars, regVars,
                   recKeys, recCur, recStarts, recOld, recSnap, callVars>>

\* c.Status = ConnectionOk, before the lock is taken
RecSetOk(r) ==
    /\ ~panicked
    /\ UNCHANGED <<disputeVars, signVars, peer>>
    /\ pcRec[r] = "setok"
    /\ Status' = ConnectionOk
    /\ pcRec' = [pcRec EXCEPT ![r] = "lock"]
    /\ UNCHANGED <<Client, lock, ReConnect, nextConn, panicked, chanVars, regVars,
                   recClient, recKeys, recCur, recFails, recStarts, recOld,
                   recSnap, callVars>>

\* c.lock.Lock(); c.Client = client; var keys []string
RecLock(r) ==
    /\ ~panicked
    /\ UNCHANGED <<disputeVars, signVars, peer>>
    /\ pcRec[r] = "lock" /\ LockFree
    /\ lock' = r
    /\ Client' = recClient[r]
    /\ recKeys' = [recKeys EXCEPT ![r] = {}]
    /\ recSnap' = [recSnap EXCEPT ![r] = {ReConnect[n] : n \in DOMAIN ReConnect}]
    /\ pcRec' = [pcRec EXCEPT ![r] = "range"]
    /\ UNCHANGED <<Status, ReConnect, nextConn, panicked, chanVars, regVars,
                   recClient, recCur, recFails, recStarts, recOld, callVars>>

\* a mutant of CanSend: the channel is made without a buffer, make(chan struct{}),
\* and a send blocks while no receiver waits
CanSendUnbuffered(buffered) == FALSE

\* c <- struct{}{} returns at once: the buffer of the channel has room
CanSend(buffered) == buffered < ChanCap

\* one turn of the range loop, up to the send: keys = append(keys, name); c <- struct{}{}
\* (a send on a closed channel panics, a send on a full one blocks)
RecSend(r, n) ==
    /\ ~panicked
    /\ UNCHANGED <<disputeVars, signVars, peer>>
    /\ pcRec[r] = "range" /\ n \in NotifyTargets(ReConnect, recKeys[r])
    /\ LET ch == ReConnect[n]
       IN \/ /\ chanClosed[ch] > 0
             /\ panicked' = TRUE
             /\ chanSent' = [chanSent EXCEPT ![ch] = @ + 1]
             /\ UNCHANGED <<chanBuf, pcRec, recCur>>
          \/ /\ chanClosed[ch] = 0 /\ CanSend(chanBuf[ch])
             /\ chanBuf' = [chanBuf EXCEPT ![ch] = @ + 1]
             /\ chanSent' = [chanSent EXCEPT ![ch] = @ + 1]
             /\ pcRec' = [pcRec EXCEPT ![r] = "close"]
             /\ recCur' = [recCur EXCEPT ![r] = ch]
             /\ UNCHANGED panicked
    /\ recKeys' = [recKeys EXCEPT ![r] = @ \cup {n}]
    /\ UNCHANGED <<Client, Status, lock, ReConnect, nextConn, chanClosed, chanName,
                   regVars, recClient, recFails, recStarts, recOld, recSnap,
                   callVars>>

\* the rest of the turn: close(c) (closing a closed channel panics)
RecClose(r) ==
    /\ ~panicked
    /\ UNCHANGED <<disputeVars, signVars, peer>>
    /\ pcRec[r] = "close"
    /\ chanClosed' = [chanClosed EXCEPT ![recCur[r]] = @ + 1]
    /\ panicked' = (chanClosed[recCur[r]] > 0)
    /\ pcRec' = [pcRec EXCEPT ![r] = "range"]
    /\ recCur' = [recCur EXCEPT ![r] = NoChan]
    /\ UNCHANGED <<Client, Status, lock, ReConnect, nextConn, chanBuf, chanSent,
                   chanName, regVars, recClient, recKeys, recFails, recStarts,
                   recOld, recSnap, callVars>>

\* the range loop is over: the delete loop, c.lock.Unlock(), return
RecFinish(r) ==
    /\ ~panicked
    /\ UNCHANGED <<disputeVars, signVars, peer>>
    /\ pcRec[r] = "range" /\ NotifyTargets(ReConnect, recKeys[r]) = {}
    /\ ReConnect' = Retire(ReConnect, recKeys[r])
    /\ lock' = Unlock(r)
    /\ pcRec' = [pcRec EXCEPT ![r] = "idle"]
    /\ recClient' = [recClient EXCEPT ![r] = NilConn]
    /\ recKeys' = [recKeys EXCEPT ![r] = {}]
    /\ recOld' = [recOld EXCEPT ![r] = NilConn]
    /\ recSnap' = [recSnap EXCEPT ![r] = {}]
    /\ UNCHANGED <<Client, Status, nextConn, panicked, chanVars, regVars, recCur,
                   recFails, recStarts, callVars>>

(* ------------------------- the wrapped chain calls --------------------- *)
Remove(s, x) == SelectSeq(s, LAMBDA y : y # x)

\* a wrapper (BlockByHash ... SendTransaction) is called
CallIssue(p) ==
    /\ ~panicked
    /\ UNCHANGED <<disputeVars, signVars, peer>>
    /\ pcCall[p] = "idle"
    /\ pcCall' = [pcCall EXCEPT ![p] = "wait"]
    /\ waitOrder' = Append(waitOrder, p)
    /\ UNCHANGED <<Client, Status, lock, ReConnect, nextConn, panicked, chanVars,
                   regVars, recVars, callConn>>

\* c.lock.Lock(), then the call on c.Client starts (on a nil Client it panics)
CallLock(p) ==
    /\ ~panicked
    /\ UNCHANGED <<disputeVars, signVars, peer>>
    /\ pcCall[p] = "wait" /\ LockFree
    /\ lock' = p
    /\ callConn' = [callConn EXCEPT ![p] = Client]
    /\ panicked' = (Client = NilConn)
    /\ pcCall' = [pcCall EXCEPT ![p] = "exec"]
    /\ waitOrder' = Remove(waitOrder, p)
    /\ UNCHANGED <<Client, Status, ReConnect, nextConn, chanVars, regVars, recVars>>

\* the call on c.Client returns; the deferred c.lock.Unlock()
CallReturn(p) ==
    /\ ~panicked
    /\ UNCHANGED <<disputeVars, signVars, peer>>
    /\ pcCall[p] = "exec"
    /\ lock' = Unlock(p)
    /\ pcCall' = [pcCall EXCEPT ![p] = "idle"]
    /\ callConn' = [callConn EXCEPT ![p] = NilConn]
    /\ UNCHANGED <<Client, Status, ReConnect, nextConn, panicked, chanVars,
                   regVars, recVars, waitOrder>>

(* ------------------- the merkle commitment over locks ------------------ *)
\* mp.MerkleRoot(): the commitment to a set of locks, the same for every order
\* of the set and different for different sets
MerkleRoot(locks) == locks

\* mp.MakeProof(leaf): the proof names the leaf and rests on the tree it was made from
MakeProof(tree, leaf) == [leaf |-> leaf, tree |-> tree]

\* VerifyProof(leafHash, proof, root)
VerifyProof(leaf, proof, root) ==
    /\ proof.leaf = leaf /\ leaf \in proof.tree
    /\ MerkleRoot(proof.tree) = root

(* ------------------------------- sign() -------------------------------- *)
\* the buffer sign() fills: LockHash, ChannelIdentifier, OpenBlockNumber,
\* ChainID, AdditionalHash
PunishMessage(lockHash) == <<lockHash, "channel", "openblock", "chainid", "emptyhash">>

\* the verifier's check of a balance proof's signature
ProofVerifies(proof) == proof.signedBy = proof.signer

\* the log of the kinds of call that have succeeded, in the order of their first
\* success
Record(log, op) ==
    IF \E i \in 1 .. Len(log) : log[i] = op THEN log ELSE Append(log, op)

\* the progress of the run along the worked scenario after a contract call
ScenStep(k, match) == IF scen = k /\ match THEN k + 1 ELSE 0 - 1
ScenOkStep(k, match, ok) == IF scen = k /\ match THEN scenOk /\ ok ELSE TRUE

\* ou.sign(key): the signature over the message, made with key
Sign(lockHash, key) == [key |-> key, msg |-> PunishMessage(lockHash)]

(* ---------------------- ChannelDisputeStateMachine --------------------- *)
\* a block is mined (the blocks before the close change nothing the dispute
\* reads: the clock of the model starts at the close)
Tick ==
    /\ ~aborted
    /\ UNCHANGED <<clientVars, signVars, peer>>
    /\ chState # "Opened" /\ height < MaxHeight
    /\ height' = height + 1
    /\ UNCHANGED <<chState, closeHeight, updateHeight, recNonce, recAmount,
                   commitment, commitSigner, prevCommitment, prevSigner, punished,
                   finalBal, aborted, lastCall, okOps, scen, scenOk>>

\* the result of Close(counterpartyProof) called by caller
CloseResult(caller, proof) ==
    IF chState \in Terminal THEN "ChannelFinalized"
    ELSE IF chState # "Opened" THEN "TransactionFailed"
    ELSE IF proof.signer # Other(caller) \/ ~ProofVerifies(proof) THEN "SignatureMismatch"
    ELSE "ok"

CloseChannel(caller, proof) ==
    /\ ~aborted
    /\ UNCHANGED <<clientVars, signVars, peer>>
    /\ LET res == CloseResult(caller, proof)
           match == caller = "A" /\ proof = ScenarioCloseProof
       IN /\ lastCall' = [op |-> "close", result |-> res, stale |-> FALSE,
                          cross |-> FALSE, pre |-> chState, late |-> FALSE]
          /\ scen' = ScenStep(0, match)
          /\ scenOk' = ScenOkStep(0, match, res = "ok")
          /\ IF res = "ok"
             THEN /\ chState' = "Closed"
                  /\ closeHeight' = height
                  /\ recNonce' = [recNonce EXCEPT ![proof.signer] = proof.nonce]
                  /\ recAmount' = [recAmount EXCEPT ![proof.signer] = proof.amount]
                  /\ commitment' = MerkleRoot(proof.locks)
                  /\ commitSigner' = proof.signer
                  /\ okOps' = Record(okOps, "close")
             ELSE UNCHANGED <<chState, closeHeight, recNonce, recAmount, commitment,
                              commitSigner, okOps>>
    /\ UNCHANGED <<height, updateHeight, prevCommitment, prevSigner, punished,
                   finalBal, aborted>>

\* a mutant of NonceIsStale: the nonce is compared with both signers' nonces
NonceIsStaleAcrossSigners(nonces, signer, nonce) ==
    \E x \in DOMAIN nonces : nonce <= nonces[x]

\* the nonce does not exceed the one recorded for the same signer
NonceIsStale(nonces, signer, nonce) == nonce <= nonces[signer]

\* the result of UpdateBalanceProof(newerProof) called by caller
UpdateResult(caller, proof) ==
    IF chState \in Terminal THEN "ChannelFinalized"
    ELSE IF chState \notin {"Closed", "Updated"} THEN "TransactionFailed"
    ELSE IF height - closeHeight >= SettleTimeout THEN "TransactionFailed"
    ELSE IF proof.signer # Other(caller) \/ ~ProofVerifies(proof) THEN "SignatureMismatch"
    ELSE IF NonceIsStale(recNonce, proof.signer, proof.nonce) THEN "StaleNonce"
    ELSE "ok"

UpdateBalanceProof(caller, proof) ==
    /\ ~aborted
    /\ UNCHANGED <<clientVars, signVars, peer>>
    /\ LET res == UpdateResult(caller, proof)
           match == caller = "B" /\ proof = ScenarioUpdateProof
       IN /\ lastCall' = [op |-> "update", result |-> res,
                          stale |-> proof.nonce <= recNonce[proof.signer],
                          cross |-> proof.nonce <= recNonce[Other(proof.signer)],
                          pre |-> chState, late |-> FALSE]
          /\ scen' = ScenStep(1, match)
          /\ scenOk' = ScenOkStep(1, match, res = "ok")
          /\ IF res = "ok"
             THEN /\ chState' = "Updated"
                  /\ updateHeight' = height
                  /\ recNonce' = [recNonce EXCEPT ![proof.signer] = proof.nonce]
                  /\ recAmount' = [recAmount EXCEPT ![proof.signer] = proof.amount]
                  /\ prevCommitment' = commitment
                  /\ prevSigner' = commitSigner
                  /\ commitment' = MerkleRoot(proof.locks)
                  /\ commitSigner' = proof.signer
                  /\ okOps' = Record(okOps, "update")
             ELSE UNCHANGED <<chState, updateHeight, recNonce, recAmount,
                              prevCommitment, prevSigner, commitment, commitSigner,
                              okOps>>
    /\ UNCHANGED <<height, closeHeight, punished, finalBal, aborted>>

\* a mutant of PunishAllowed: a punish request is taken before any update
PunishAllowedAfterClose(state) == state \in {"Closed", "Updated"}

\* the lifecycle states in which a punish request is taken
PunishAllowed(state) == state = "Updated"

\* the punish window measured from the update has elapsed
WindowElapsed == height - updateHeight >= PunishWindow

\* the result of PunishObsoleteUnlock(punishRequest): the request names a lock,
\* carries a merkle proof and the signature
PunishResult(lockHash, proof, sig) ==
    IF chState \in Terminal THEN "ChannelFinalized"
    ELSE IF ~PunishAllowed(chState) THEN "NoPriorUpdate"
    ELSE IF WindowElapsed THEN "WindowExpired"
    ELSE IF \E x \in punished : x[1] = lockHash THEN "ValidationError"
    ELSE IF sig.key # prevSigner \/ sig.msg # PunishMessage(lockHash)
         THEN "SignatureMismatch"
    ELSE IF ~VerifyProof(lockHash, proof, prevCommitment) THEN "ValidationError"
    ELSE IF lockHash \in commitment THEN "ValidationError"
    ELSE "ok"

\* the punish call of the test: the request is built for a lock of tree, signed
\* with key (sign panics when signing fails) and submitted by caller
PunishObsoleteUnlock(caller, lockHash, tree, key, signOk) ==
    /\ ~aborted
    /\ UNCHANGED <<clientVars, signVars, peer>>
    /\ lockHash \in tree
    /\ IF ~signOk
       THEN /\ aborted' = TRUE
            /\ UNCHANGED <<lastCall, scen, scenOk, punished, okOps>>
       ELSE LET res == PunishResult(lockHash, MakeProof(tree, lockHash),
                                    Sign(lockHash, key))
                match == /\ caller = "A" /\ tree = Locks /\ key = "B"
                         /\ ~WindowElapsed
            IN /\ lastCall' = [op |-> "punish", result |-> res, stale |-> FALSE,
                               cross |-> FALSE, pre |-> chState,
                               late |-> WindowElapsed]
               /\ scen' = ScenStep(2, match)
               /\ scenOk' = ScenOkStep(2, match, res = "ok")
               /\ IF res = "ok"
                  THEN /\ punished' = punished \cup {<<lockHash, prevSigner, caller>>}
                       /\ okOps' = Record(okOps, "punish")
                  ELSE UNCHANGED <<punished, okOps>>
               /\ UNCHANGED aborted
    /\ UNCHANGED <<chState, height, closeHeight, updateHeight, recNonce, recAmount,
                   commitment, commitSigner, prevCommitment, prevSigner, finalBal>>

\* what the punishments take from x and give to x
Forfeited(x) == LockAmount * Cardinality({y \in punished : y[2] = x})
Gained(x) == LockAmount * Cardinality({y \in punished : y[3] = x})

\* the balance Settle gives x: the last recorded proofs, adjusted for the punishments
SettledBalance(x) ==
    Deposit[x] - recAmount[x] + recAmount[Other(x)] - Forfeited(x) + Gained(x)

\* the result of Settle()
SettleResult ==
    IF chState \in Terminal THEN "ChannelFinalized"
    ELSE IF chState \notin {"Closed", "Updated"} THEN "TransactionFailed"
    ELSE IF height - closeHeight < SettleTimeout THEN "TransactionFailed"
    ELSE "ok"

Settle ==
    /\ ~aborted
    /\ UNCHANGED <<clientVars, signVars, peer>>
    /\ LET res == SettleResult
           match == height - closeHeight >= SettleTimeout
       IN /\ lastCall' = [op |-> "settle", result |-> res, stale |-> FALSE,
                          cross |-> FALSE, pre |-> chState, late |-> FALSE]
          /\ scen' = ScenStep(3, match)
          /\ scenOk' = ScenOkStep(3, match, res = "ok")
          /\ IF res = "ok"
             THEN /\ chState' = "Settled"
                  /\ finalBal' = [x \in Participants |-> SettledBalance(x)]
                  /\ okOps' = Record(okOps, "settle")
             ELSE UNCHANGED <<chState, finalBal, okOps>>
    /\ UNCHANGED <<height, closeHeight, updateHeight, recNonce, recAmount,
                   commitment, commitSigner, prevCommitment, prevSigner, punished,
                   aborted>>

\* the locks the model asks punishments for
PunishLocks == {1, 2}

DisputeNext ==
    \/ Tick
    \/ \E caller \in Participants, proof \in Proofs : CloseChannel(caller, proof)
    \/ \E caller \in Participants, proof \in Proofs : UpdateBalanceProof(caller, proof)
    \/ \E caller \in Participants, lockHash \in PunishLocks, tree \in Commitments,
          key \in Participants, signOk \in BOOLEAN :
             PunishObsoleteUnlock(caller, lockHash, tree, key, signOk)
    \/ Settle

\* the dispute over one channel, the chain client left alone
DisputeSpec == InitConnected /\ [][DisputeNext]_vars

(* ------------------------ signing a punish request --------------------- *)
RECURSIVE BigEndian(_, _)
\* the w bytes of n, most significant first (binary.BigEndian, BigIntTo32Bytes)
BigEndian(n, w) ==
    IF w = 0 THEN <<>> ELSE Append(BigEndian(n \div 256, w - 1), n % 256)

\* a mutant of SignedBytes: line 101 is not commented out, the token network
\* address is written too
SignedBytesWithTokenNetwork(w) ==
    w.LockHash \o w.ChannelIdentifier \o BigEndian(w.OpenBlockNumber, UInt64Len)
       \o w.TokenNetworkAddress \o BigEndian(w.ChainID, ChainIDLen) \o w.AdditionalHash

\* buf.Bytes() when sign() calls SignData
SignedBytes(w) ==
    w.LockHash \o w.ChannelIdentifier \o BigEndian(w.OpenBlockNumber, UInt64Len)
       \o BigEndian(w.ChainID, ChainIDLen) \o w.AdditionalHash

\* ou.sign(key) on request r: the buffer is filled and signed; a failure of
\* SignData panics
SignOu(r, signOk) ==
    /\ ~aborted
    /\ signed[r] = <<>>
    /\ IF signOk
       THEN /\ signed' = [signed EXCEPT ![r] = SignedBytes(ous[r])]
            /\ UNCHANGED aborted
       ELSE /\ aborted' = TRUE
            /\ UNCHANGED signed
    /\ UNCHANGED <<clientVars, ous, peer>>
    /\ UNCHANGED <<chState, height, closeHeight, updateHeight, recNonce, recAmount,
                   commitment, commitSigner, prevCommitment, prevSigner, punished,
                   finalBal, lastCall, okOps, scen, scenOk>>

SignNext == \E r \in RequestIds, signOk \in BOOLEAN : SignOu(r, signOk)

\* requests to sign, on a connected client and an open channel
InitSigning ==
    /\ InitCommon /\ DisputeInit /\ SignInputs /\ PeerInit
    /\ Client = 1 /\ nextConn = 2 /\ Status = ConnectionOk

SignSpec == InitSigning /\ [][SignNext]_vars

(* ------------------------- a second SafeEthClient ---------------------- *)
\* a mutant of RegistryOf: the registry is one package-level map all clients use
RegistryShared(inst) == "main"

\* the map c.ReConnect of client inst refers to: the one its NewSafeClient made
RegistryOf(inst) == inst

\* the channels a registry holds
Range(reg) == {reg[n] : n \in DOMAIN reg}

\* RegisterReConnectNotify(n) on the second client, under its own lock
PeerRegister(n) ==
    /\ ~panicked /\ peer.ops < MaxPeerOps
    /\ IF RegistryOf("peer") = "peer"
       THEN /\ peer' = [peer EXCEPT
                          !.ReConnect =
                             IF n \in DOMAIN @ THEN @
                             ELSE Extend(@, n, Cardinality(DOMAIN @) + Cardinality(peer.fired) + 1),
                          !.ops = @ + 1]
            /\ UNCHANGED <<ReConnect, chanVars>>
       ELSE /\ peer' = [peer EXCEPT !.ops = @ + 1]
            /\ LET ch == RegisterResult(ReConnect, n, Cardinality(Chans) + 1)
               IN IF ch \in Chans
                  THEN UNCHANGED <<ReConnect, chanVars>>
                  ELSE /\ ReConnect' = RegisterMap(ReConnect, n, ch)
                       /\ chanBuf' = Extend(chanBuf, ch, 0)
                       /\ chanSent' = Extend(chanSent, ch, 0)
                       /\ chanClosed' = Extend(chanClosed, ch, 0)
                       /\ chanName' = Extend(chanName, ch, n)
    /\ UNCHANGED <<Client, Status, lock, nextConn, panicked, regVars, recVars,
                   callVars, disputeVars, signVars>>

\* RecoverDisconnect is called on the second client: c.Status = ConnectionFailed
PeerRecStart ==
    /\ ~panicked /\ peer.ops < MaxPeerOps
    /\ peer.pc = "idle"
    /\ peer' = [peer EXCEPT !.Status = ConnectionFailed, !.pc = "dial", !.ops = @ + 1]
    /\ UNCHANGED <<clientVars, disputeVars, signVars>>

\* its dial succeeds: c.Status = ConnectionOk and, under the second client's
\* lock, the connection is installed and the channels of its registry are fired
\* and retired
PeerRecFinish ==
    /\ ~panicked
    /\ peer.pc = "dial"
    /\ IF RegistryOf("peer") = "peer"
       THEN /\ peer' = [peer EXCEPT !.Client = <<"peer", peer.Client[2] + 1>>,
                                    !.Status = ConnectionOk,
                                    !.fired = @ \cup Range(peer.ReConnect),
                                    !.ReConnect = <<>>, !.pc = "idle"]
            /\ UNCHANGED <<ReConnect, chanVars>>
       ELSE /\ peer' = [peer EXCEPT !.Client = <<"peer", peer.Client[2] + 1>>,
                                    !.Status = ConnectionOk, !.pc = "idle"]
            /\ ReConnect' = <<>>
            /\ chanBuf' = [ch \in Chans |-> IF ch \in Range(ReConnect) THEN 1 ELSE chanBuf[ch]]
            /\ chanSent' = [ch \in Chans |-> IF ch \in Range(ReConnect) THEN chanSent[ch] + 1 ELSE chanSent[ch]]
            /\ chanClosed' = [ch \in Chans |-> IF ch \in Range(ReConnect) THEN chanClosed[ch] + 1 ELSE chanClosed[ch]]
            /\ UNCHANGED chanName
    /\ UNCHANGED <<Client, Status, lock, nextConn, panicked, regVars, recVars,
                   callVars, disputeVars, signVars>>

\* two clients in one process: registrations and reconnects on both
TwoClientNext ==
    \/ \E p \in Registrars, n \in Names : RegLock(p, n)
    \/ \E p \in Registrars : RegBody(p)
    \/ \E p \in Registrars : Recv(p)
    \/ \E r \in Reconnectors : RecStart(r)
    \/ \E r \in Reconnectors : RecDialFail(r)
    \/ \E r \in Reconnectors : RecDialOk(r)
    \/ \E r \in Reconnectors : RecSetOk(r)
    \/ \E r \in Reconnectors : RecLock(r)
    \/ \E r \in Reconnectors, n \in Names : RecSend(r, n)
    \/ \E r \in Reconnectors : RecClose(r)
    \/ \E r \in Reconnectors : RecFinish(r)
    \/ \E n \in Names : PeerRegister(n)
    \/ PeerRecStart
    \/ PeerRecFinish

TwoClientSpec == InitConnected /\ [][TwoClientNext]_vars

(* --------------------------- specifications ---------------------------- *)
Next ==
    \/ \E p \in Registrars, n \in Names : RegLock(p, n)
    \/ \E p \in Registrars : RegBody(p)
    \/ \E p \in Registrars : Recv(p)
    \/ \E r \in Reconnectors : RecStart(r)
    \/ \E r \in Reconnectors : RecDialFail(r)
    \/ \E r \in Reconnectors : RecDialOk(r)
    \/ \E r \in Reconnectors : RecSetOk(r)
    \/ \E r \in Reconnectors : RecLock(r)
    \/ \E r \in Reconnectors, n \in Names : RecSend(r, n)
    \/ \E r \in Reconnectors : RecClose(r)
    \/ \E r \in Reconnectors : RecFinish(r)
    \/ \E p \in Callers : CallIssue(p)
    \/ \E p \in Callers : CallLock(p)
    \/ \E p \in Callers : CallReturn(p)

Spec == Init /\ [][Next]_vars

\* the steps of RecoverDisconnect that wait for nothing but the scheduler and a
\* dial that succeeds
RecProgress(r) ==
    \/ RecDialOk(r) \/ RecSetOk(r) \/ RecClose(r) \/ RecFinish(r)
    \/ \E n \in Names : RecSend(r, n)

\* the scheduling the liveness claims assume: a goroutine that can step does,
\* sync.Mutex hands the lock to a goroutine that keeps waiting for it, and the
\* dial of a running RecoverDisconnect succeeds in the end
ClientFairness ==
    /\ \A p \in Registrars : WF_vars(RegBody(p))
    /\ \A r \in Reconnectors : WF_vars(RecProgress(r)) /\ SF_vars(RecLock(r))
    /\ \A p \in Callers : SF_vars(CallLock(p)) /\ WF_vars(CallReturn(p))

\* a client whose first dial succeeded, under fair scheduling
LiveSpec == InitConnected /\ [][Next]_vars /\ ClientFairness

(* ------------------------------- claims -------------------------------- *)
Registered == {ReConnect[n] : n \in DOMAIN ReConnect}
PreInstall == {"dial", "setok", "lock"}

\* C1: whatever the interleaving of registrations and (concurrent) reconnects,
\* no channel is sent to twice or closed twice, every channel that has left the
\* registry received exactly one value and one close, and when the notify loop
\* of a reconnect ends every channel that was registered when it took the lock
\* has been fired.
C1_FiredExactlyOnce ==
    /\ \A ch \in Chans : chanSent[ch] <= 1 /\ chanClosed[ch] <= 1
    /\ \A ch \in Chans \ Registered : chanSent[ch] = 1 /\ chanClosed[ch] = 1
    /\ \A r \in Reconnectors :
          pcRec[r] = "range" /\ DOMAIN ReConnect \subseteq recKeys[r]
             => \A ch \in recSnap[r] : chanSent[ch] = 1 /\ chanClosed[ch] = 1

\* C1 witness: a reconnect has fired both channels it found registered while a
\* second RecoverDisconnect, running at the same time, waits for the lock.
C1_Witness ==
    \E r \in Reconnectors :
       /\ pcRec[r] = "range" /\ Cardinality(recSnap[r]) = 2
       /\ DOMAIN ReConnect \subseteq recKeys[r]
       /\ \E q \in Reconnectors \ {r} : pcRec[q] = "lock"

C2_Pending ==
    /\ \A n \in Names :
          Cardinality({ch \in Chans : chanName[ch] = n /\ chanSent[ch] = 0}) <= 1
    /\ \A p \in Registrars :
          regRet[p] \in Chans /\ chanSent[regRet[p]] = 0
             => /\ chanName[regRet[p]] \in DOMAIN ReConnect
                /\ ReConnect[chanName[regRet[p]]] = regRet[p]

C2_Step ==
    \A p \in Registrars :
       pcReg[p] = "body" /\ pcReg'[p] = "idle" /\ regName[p] \in DOMAIN ReConnect
          => /\ regRet'[p] = ReConnect[regName[p]]
             /\ ReConnect' = ReConnect
             /\ chanVars' = chanVars
             /\ panicked' = panicked

\* C2: registering a name whose channel has not fired returns the channel
\* already registered, makes no channel, leaves the registry as it is and does
\* not fail; there is never more than one unfired channel for a name, and every
\* unfired channel a caller was given is the one the registry holds for its name.
C2_RegisterIdempotent == []C2_Pending /\ [][C2_Step]_vars

\* C2 witness: two callers hold the same unfired channel while another name is
\* registered too.
C2_Witness ==
    /\ regRet["g1"] \in Chans /\ regRet["g1"] = regRet["g2"]
    /\ chanSent[regRet["g1"]] = 0
    /\ Cardinality(DOMAIN ReConnect) = 2
    /\ \A p \in Registrars : pcReg[p] = "idle"

C3_RetireStep ==
    \A r \in Reconnectors :
       pcRec[r] = "range" /\ pcRec'[r] = "idle"
          => /\ recKeys[r] \cap DOMAIN ReConnect' = {}
             /\ \A ch \in recSnap[r] : ch \notin {ReConnect'[n] : n \in DOMAIN ReConnect'}

C3_RegisterStep ==
    \A p \in Registrars :
       pcReg[p] = "body" /\ pcReg'[p] = "idle"
          => /\ regRet'[p] \in DOMAIN chanSent'
             /\ chanSent'[regRet'[p]] = 0 /\ chanClosed'[regRet'[p]] = 0
             /\ regName[p] \in DOMAIN ReConnect'
             /\ ReConnect'[regName[p]] = regRet'[p]

\* C3: when RecoverDisconnect returns, the names it fired are gone from the
\* registry, and every RegisterReConnectNotify returns an unfired, unclosed
\* channel that is in the registry (so the next reconnect fires it), never a
\* fired one.
C3_FiredIsRetired == [][C3_RetireStep /\ C3_RegisterStep]_vars

\* C3 witness: a name was registered, fired, registered again with another
\* channel, and that channel fired too.
C3_Witness ==
    \E a, b \in Chans :
       /\ a # b /\ chanName[a] = chanName[b]
       /\ chanSent[a] = 1 /\ chanClosed[a] = 1
       /\ chanSent[b] = 1 /\ chanClosed[b] = 1 /\ chanBuf[b] = 0

C4_NotOnOldConnection ==
    \A p \in Callers, r \in Reconnectors :
       pcCall[p] = "exec" /\ pcRec[r] \in PreInstall => callConn[p] # recOld[r]

C4_InOrder ==
    \A p \in Callers :
       pcCall[p] = "wait" /\ pcCall'[p] = "exec" => Head(waitOrder) = p

\* C4: while a RecoverDisconnect is running and has not yet installed its new
\* connection, no chain call runs on the connection that was installed when
\* that RecoverDisconnect began (the call waits instead), and the waiting calls
\* get the lock in the order they were issued.
C4_CallsWaitForReconnect == []C4_NotOnOldConnection /\ [][C4_InOrder]_vars

\* C5: under fair scheduling and a dial that succeeds in the end, no chain call
\* stays issued or running for ever and no RecoverDisconnect stays running for
\* ever: every caller and every reconnecting goroutine is back from its call
\* again and again.
C5_CallsAndReconnectComplete ==
    /\ \A p \in Callers : []<>(pcCall[p] = "idle")
    /\ \A r \in Reconnectors : []<>(pcRec[r] = "idle")

\* C5 witness: after a disconnect both callers have calls outstanding while a
\* RecoverDisconnect has dialed and waits for the lock a call holds.
C5_Witness ==
    /\ \E p \in Callers : pcCall[p] = "exec"
    /\ \E p \in Callers : pcCall[p] = "wait"
    /\ \E r \in Reconnectors : pcRec[r] = "lock"

\* C6: at most one chain call runs at a time, the running call holds the lock
\* and runs on the connection that is installed (so the connection is not
\* swapped under it), a RecoverDisconnect that is installing and notifying holds
\* the lock, and a call that starts runs on the connection the latest swap
\* installed.
C6_SingleSerializationPoint ==
    /\ Cardinality({p \in Callers : pcCall[p] = "exec"}) <= 1
    /\ \A p \in Callers : pcCall[p] = "exec" => lock = p /\ callConn[p] = Client
    /\ \A r \in Reconnectors :
          pcRec[r] \in {"range", "close"}
             => lock = r /\ Client = recClient[r]
                /\ \A p \in Callers : pcCall[p] # "exec"

\* C6 witness: a call runs on a connection a reconnect installed, while another
\* call and another RecoverDisconnect, which has dialed, wait for the lock.
C6_Witness ==
    \E p \in Callers :
       /\ pcCall[p] = "exec" /\ callConn[p] = 2
       /\ \E q \in Callers : pcCall[q] = "wait"
       /\ \E r \in Reconnectors : pcRec[r] = "lock" /\ recClient[r] = 3

\* C7: along the worked scenario (A closes with B's proof of amount 10, no
\* locks, nonce 3; B updates with the proof over the 20 locks; inside the punish
\* window A asks to punish one of those locks with a proof against their tree
\* and B's signature; the channel is settled) every step succeeds, and B's
\* settled balance is its balance less the amount of the lock.
C7_WorkedScenarioSucceeds ==
    /\ scen >= 1 => scenOk
    /\ scen = 4 => finalBal["B"] = DepositPartner - CloseTransfer - LockAmount

Rejections == {"ChannelFinalized", "TransactionFailed", "SignatureMismatch"}

\* C8: an update is refused as StaleNonce only when its nonce does not exceed
\* the nonce recorded for its own signer, an update with such a nonce is never
\* accepted, and an update that is refused for neither the channel's state, the
\* settle timeout nor its signature is accepted whenever its nonce exceeds its
\* own signer's, whatever the other signer's nonce is.
C8_NoncePerSigner ==
    lastCall.op = "update"
       => /\ lastCall.result = "StaleNonce" => lastCall.stale
          /\ lastCall.stale => lastCall.result \in Rejections \cup {"StaleNonce"}
          /\ ~lastCall.stale => lastCall.result \in Rejections \cup {"ok"}

\* C8 witness: the update of the test, nonce 1, is accepted after the close
\* recorded nonce 3 for the other signer.
C8_Witness ==
    /\ lastCall.op = "update" /\ lastCall.result = "ok" /\ lastCall.cross
    /\ scen = 2
    /\ recNonce["A"] = UpdateNonce /\ recNonce["B"] = CloseNonce

Before(log, a, b) ==
    \E i, j \in 1 .. Len(log) : i < j /\ log[i] = a /\ log[j] = b

\* C9: a punish request succeeds only on a channel that was closed and then
\* updated, and only inside the punish window counted from the update; before
\* any update it fails with NoPriorUpdate, after the window with WindowExpired.
C9_PunishOnlyAfterUpdate ==
    /\ (\E i \in 1 .. Len(okOps) : okOps[i] = "punish")
          => Before(okOps, "close", "update") /\ Before(okOps, "update", "punish")
    /\ lastCall.op = "punish"
          => /\ lastCall.result = "ok" => lastCall.pre = "Updated" /\ ~lastCall.late
             /\ lastCall.pre \in {"Opened", "Closed"}
                   => lastCall.result = "NoPriorUpdate"
             /\ lastCall.pre = "Updated" /\ lastCall.late
                   => lastCall.result = "WindowExpired"

\* C9 witness: a punish request has succeeded, after a close and an update.
C9_Witness ==
    /\ lastCall.op = "punish" /\ lastCall.result = "ok"
    /\ okOps = <<"close", "update", "punish">>
    /\ punished # {}

\* C10: a failure to sign a punish request never ends the process: the caller
\* gets the failure and goes on.
C10_SigningFailureIsReturned == ~aborted

RECURSIVE Decode(_)
\* the number a sequence of bytes denotes, most significant byte first
Decode(b) ==
    IF b = <<>> THEN 0 ELSE Decode(SubSeq(b, 1, Len(b) - 1)) * 256 + b[Len(b)]

FiveFields(w) ==
    <<w.LockHash, w.ChannelIdentifier, w.OpenBlockNumber, w.ChainID, w.AdditionalHash>>

C11_Layout(w, m) ==
    /\ Len(m) = 3 * HashLen + UInt64Len + ChainIDLen
    /\ SubSeq(m, 1, 32) = w.LockHash
    /\ SubSeq(m, 33, 64) = w.ChannelIdentifier
    /\ Decode(SubSeq(m, 65, 72)) = w.OpenBlockNumber
    /\ Decode(SubSeq(m, 73, 104)) = w.ChainID
    /\ SubSeq(m, 105, 136) = w.AdditionalHash

\* C11: the bytes signed for a punish request are its lock hash (bytes 1-32),
\* channel identifier (33-64), open block number as 8 big-endian bytes (65-72),
\* chain identifier as 32 big-endian bytes (73-104) and additional hash
\* (105-136) and nothing more; two signed requests have the same bytes exactly
\* when they agree on these five fields, whatever their other fields are.
C11_SignedMessageIsFiveFields ==
    /\ \A r \in RequestIds : signed[r] # <<>> => C11_Layout(ous[r], signed[r])
    /\ \A r, q \in RequestIds :
          signed[r] # <<>> /\ signed[q] # <<>>
             => (signed[r] = signed[q] <=> FiveFields(ous[r]) = FiveFields(ous[q]))

\* C11 witness: two signed requests agree on the five fields and differ in
\* beneficiary, token network address, merkle proof, nonce and amount.
C11_Witness ==
    /\ signed["ou1"] # <<>> /\ signed["ou2"] # <<>>
    /\ FiveFields(ous["ou1"]) = FiveFields(ous["ou2"])
    /\ ous["ou1"].BeneficiaryAddress # ous["ou2"].BeneficiaryAddress
    /\ ous["ou1"].TokenNetworkAddress # ous["ou2"].TokenNetworkAddress
    /\ ous["ou1"].MerkleProof # ous["ou2"].MerkleProof
    /\ ous["ou1"].BeneficiaryNonce # ous["ou2"].BeneficiaryNonce
    /\ ous["ou1"].BeneficiaryTransferredAmount # ous["ou2"].BeneficiaryTransferredAmount
    /\ ous["ou1"].OpenBlockNumber = 256 /\ ous["ou1"].ChainID = 65537

\* a step of an operation on the second client
C12_PeerStep == peer' # peer
\* a step of RegisterReConnectNotify or RecoverDisconnect on the first client
C12_MainStep ==
    \/ \E p \in Registrars : pcReg'[p] # pcReg[p]
    \/ \E r \in Reconnectors : pcRec'[r] # pcRec[r] \/ recKeys'[r] # recKeys[r]

C12_Frame ==
    /\ C12_PeerStep => /\ <<Client, Status, ReConnect>>' = <<Client, Status, ReConnect>>
                       /\ ~C12_MainStep
    /\ C12_MainStep => peer' = peer
    /\ <<Client, Status, ReConnect>>' # <<Client, Status, ReConnect>> => C12_MainStep

C12_Atomic ==
    \A ch \in Registered :
       chanSent[ch] > 0 \/ chanClosed[ch] > 0
          => /\ \E r \in Reconnectors : lock = r /\ pcRec[r] \in {"range", "close"}
             /\ \A p \in Registrars : pcReg[p] # "body"

\* C12: with two clients in the process, a registration or a reconnect on one
\* leaves the registry, connection and status of the other as they are (each
\* client has its own registry), and a registry that holds a channel already
\* fired and not yet retired exists only while the RecoverDisconnect that fired
\* it holds the client's lock: no registration of the same client sees it.
C12_RegistryOwnedByOneClient == []C12_Atomic /\ [][C12_Frame]_vars

\* C12 witness: the second client has registered a channel and fired it in a
\* reconnect of its own, while a reconnect of the first client holds the lock
\* with a channel fired and not yet retired.
C12_Witness ==
    /\ peer.fired # {} /\ peer.ReConnect = <<>> /\ peer.Status = ConnectionOk
    /\ \E r \in Reconnectors : lock = r /\ pcRec[r] = "range"
    /\ \E ch \in Registered : chanSent[ch] = 1 /\ chanClosed[ch] = 1

\* C13: whenever the notify loop of a RecoverDisconnect has an entry left to
\* visit, the channel of that entry is open and empty and has never been sent
\* to, and the send of the loop can be taken at once, with no receiver; and no
\* RecoverDisconnect panics with the lock held, so it goes on to the Unlock.
C13_NotifyNeverBlocks ==
    /\ \A r \in Reconnectors :
          pcRec[r] = "range"
             => \A n \in NotifyTargets(ReConnect, recKeys[r]) :
                   /\ chanSent[ReConnect[n]] = 0 /\ chanBuf[ReConnect[n]] = 0
                   /\ chanClosed[ReConnect[n]] = 0
                   /\ ENABLED RecSend(r, n)
    /\ \A r \in Reconnectors : pcRec[r] = "close" => chanClosed[recCur[r]] = 0
    /\ panicked => lock \notin Reconnectors

\* C13 witness: the loop has sent to one channel, whose value nobody has
\* received, and still has the other channel to send to.
C13_Witness ==
    \E r \in Reconnectors :
       /\ pcRec[r] = "range" /\ lock = r
       /\ \E n \in recKeys[r] : chanBuf[ReConnect[n]] = 1 /\ chanClosed[ReConnect[n]] = 1
       /\ NotifyTargets(ReConnect, recKeys[r]) # {}

C14_Pending == {ch \in Chans : chanSent[ch] = 0 /\ chanClosed[ch] = 0}

C14_LeavesOnlyFired ==
    \A ch \in Registered :
       ch \notin {ReConnect'[n] : n \in DOMAIN ReConnect'}
          => chanSent'[ch] = 1 /\ chanClosed'[ch] = 1

\* C14: whenever the lock is free the channels in the registry are exactly the
\* channels made by a registration and not yet fired, each under the name it
\* was registered with; and a channel leaves the registry only fired (sent to
\* once and closed).
C14_RegistryIsThePending ==
    /\ [](lock = NoOwner
            => /\ Registered = C14_Pending
               /\ \A n \in DOMAIN ReConnect : chanName[ReConnect[n]] = n)
    /\ [][C14_LeavesOnlyFired]_vars

\* C14 witness: the lock is free, one channel has been fired and retired by a
\* reconnect, and a channel registered while a second RecoverDisconnect was
\* already running is pending in the registry.
C14_Witness ==
    /\ lock = NoOwner
    /\ \E ch \in Chans \ Registered : chanSent[ch] = 1
    /\ Registered # {}
    /\ \E r \in Reconnectors : pcRec[r] \in PreInstall

\* the number of the most recent successful dial (NilConn when none succeeded)
LastDialed == nextConn - 1

\* C15: while a RecoverDisconnect has started and has not yet installed its
\* newly dialed connection, Status is ConnectionFailed; and whenever Status is
\* ConnectionOk the installed connection is the one the most recent successful
\* dial returned.
C15_StatusReflectsConnection ==
    /\ \A r \in Reconnectors : pcRec[r] \in PreInstall => Status = ConnectionFailed
    /\ Status = ConnectionOk => Client = LastDialed

C16_FailedAttempt ==
    \A r \in Reconnectors :
       recFails'[r] > recFails[r]
          => /\ pcRec'[r] = "dial"
             /\ <<Client, ReConnect, chanVars>>' = <<Client, ReConnect, chanVars>>

C16_Return ==
    \A r \in Reconnectors :
       pcRec[r] # "idle" /\ pcRec'[r] = "idle"
          => /\ recClient[r] # NilConn
             /\ Client' = recClient[r]
             /\ Status' = ConnectionOk
             /\ ReConnect' = <<>>

\* C16: a failed dial leaves RecoverDisconnect dialing and changes neither the
\* installed connection nor the registry nor any channel; RecoverDisconnect
\* returns only with a connection its dial returned, and when it returns that
\* connection is the installed one, Status is ConnectionOk and the registry is
\* empty.
C16_ReturnsOnlyConnected == [][C16_FailedAttempt /\ C16_Return]_vars

\* C17: until the first RecoverDisconnect, the client is as NewSafeClient
\* returned it: Status is ConnectionOk exactly when the dial succeeded (a
\* connection is installed) and ConnectionFailed otherwise, and the registry
\* holds nothing before the first registration; and once RecoverDisconnect has
\* run and none is running any more, also on a client whose first dial failed,
\* Status is ConnectionOk and a dialed connection is installed.
C17_ConstructedThenRecovered ==
    /\ recStarts = 0
          => /\ Status = ConnectionOk <=> Client # NilConn
             /\ Status = ConnectionFailed <=> Client = NilConn
             /\ Chans = {} => ReConnect = <<>>
    /\ recStarts > 0 /\ (\A r \in Reconnectors : pcRec[r] = "idle")
          => /\ Status = ConnectionOk
             /\ Client # NilConn /\ Client \in 1 .. LastDialed

\* C17 witness: the first dial failed, the only dial that succeeded is that of
\* one RecoverDisconnect, which has returned: the client is ConnectionOk on
\* that connection.
C17_Witness ==
    /\ recStarts = 1 /\ nextConn = 2
    /\ \A r \in Reconnectors : pcRec[r] = "idle"
    /\ Status = ConnectionOk /\ Client = 1
    /\ \E p \in Callers : pcCall[p] = "exec" /\ callConn[p] = 1

====
